---- MODULE Spec2Model ----
(***************************************************************************)
(* AgentTaskManager (a2a_servers/common/agent_task_manager.py): the task   *)
(* store and the unary and streaming request paths, as a state machine.    *)
(* Every execution context (a coroutine serving one request, or one direct *)
(* caller of _update_store) advances one suspension point at a time; the   *)
(* body of _update_store is modelled statement by statement.               *)
(* RemoteAgentConnections (a2a_servers/agents/utils/                       *)
(* remote_agent_connection.py): send_task and merge_metadata, with the     *)
(* metadata dicts held by reference; its behaviours are SpecRemote.        *)
(***************************************************************************)
EXTENDS Integers, Sequences, FiniteSets, TLC

(* ------------------------------ bounds -------------------------------- *)

\* The updates the agent's streams yield in one run, all exchanges together.
MaxUpdates == 2

\* The response elements one remote stream delivers to send_task.
MaxElements == 2

\* The send_task calls made on one connection, one after the other.
MaxCalls == 2

\* Execution contexts and task identifiers.
Contexts == {"c1", "c2"}
TaskIds == {"t1", "t2"}

(* --------------------------- Python values ---------------------------- *)

\* Optional values: None is the empty sequence, a value x is <<x>>.
None == <<>>
Some(x) == <<x>>

\* Text is a sequence of one-character strings.
Num(n) == [kind |-> "num", n |-> n]
Str(s) == [kind |-> "str", s |-> s]
Dict(f) == [kind |-> "dict", d |-> f]

\* Python's `needle in haystack` on two strs: substring search.
StrContains(needle, haystack) ==
    \E i \in 1..(Len(haystack) - Len(needle) + 1) :
        SubSeq(haystack, i, i + Len(needle) - 1) = needle

\* The marker literal of _invoke.
MISSING_INFO == <<"M", "I", "S", "S", "I", "N", "G", "_", "I", "N", "F", "O", ":">>

Result_word == <<"r", "e", "s", "u", "l", "t">>

(* ------------------------------ json.loads ---------------------------- *)

Digits == {"0", "1", "2", "3", "4", "5", "6", "7", "8", "9"}
Letters == {"a", "b", "x", "y"}
DigitValue(c) == CHOOSE n \in 0..9 : <<"0", "1", "2", "3", "4", "5", "6", "7", "8", "9">>[n + 1] = c

ParseFail == [ok |-> FALSE]
ParseOk(v, rest) == [ok |-> TRUE, v |-> v, rest |-> rest]

\* A JSON string starting at s[1] = "\"": letters up to the closing quote.
RECURSIVE ParseStringBody(_, _)
ParseStringBody(s, acc) ==
    IF s = <<>> THEN ParseFail
    ELSE IF s[1] = "\"" THEN ParseOk(Str(acc), Tail(s))
    ELSE IF s[1] \in Letters THEN ParseStringBody(Tail(s), Append(acc, s[1]))
    ELSE ParseFail

\* A JSON number: one or more digits.
RECURSIVE ParseNumber(_, _)
ParseNumber(s, acc) ==
    IF s # <<>> /\ s[1] \in Digits
    THEN ParseNumber(Tail(s), 10 * acc + DigitValue(s[1]))
    ELSE ParseOk(Num(acc), s)

\* value ::= number | string | object;  object ::= { } | { string : value (, string : value)* }
RECURSIVE ParseValue(_)
RECURSIVE ParseMembers(_, _)
ParseValue(s) ==
    IF s = <<>> THEN ParseFail
    ELSE IF s[1] \in Digits THEN ParseNumber(s, 0)
    ELSE IF s[1] = "\"" THEN ParseStringBody(Tail(s), <<>>)
    ELSE IF s[1] = "{"
         THEN IF Len(s) >= 2 /\ s[2] = "}"
              THEN ParseOk(Dict(<<>>), SubSeq(s, 3, Len(s)))
              ELSE ParseMembers(Tail(s), <<>>)
    ELSE ParseFail

\* Members of an object after "{" or ",": acc is the dict built so far
\* (a later duplicate key overwrites an earlier one, as in Python).
ParseMembers(s, acc) ==
    IF s = <<>> \/ s[1] # "\"" THEN ParseFail
    ELSE LET k == ParseStringBody(Tail(s), <<>>) IN
         IF ~k.ok \/ k.rest = <<>> \/ k.rest[1] # ":" THEN ParseFail
         ELSE LET v == ParseValue(Tail(k.rest)) IN
              IF ~v.ok \/ v.rest = <<>> THEN ParseFail
              ELSE LET d == [x \in (DOMAIN acc) \cup {k.v.s} |->
                                 IF x = k.v.s THEN v.v ELSE acc[x]] IN
                   IF v.rest[1] = "}" THEN ParseOk(Dict(d), Tail(v.rest))
                   ELSE IF v.rest[1] = "," THEN ParseMembers(Tail(v.rest), d)
                   ELSE ParseFail

\* json.loads(s): the parsed value, or a failure (JSONDecodeError) when s is
\* not one JSON value followed by nothing.
json_loads(s) ==
    LET r == ParseValue(s) IN
    IF r.ok /\ r.rest = <<>> THEN [ok |-> TRUE, v |-> r.v] ELSE ParseFail

(* ------------------------------ types --------------------------------- *)

\* TaskState members used by the task manager.
SUBMITTED == "submitted"
WORKING == "working"
INPUT_REQUIRED == "input-required"
COMPLETED == "completed"

TextPart(t) == [type |-> "text", text |-> t]
DataPart(v) == [type |-> "data", data |-> v]
Message(role, parts) == [role |-> role, parts |-> parts]
TaskStatus(state, message) == [state |-> state, message |-> message]
Artifact(parts, index, append) == [parts |-> parts, index |-> index, append |-> append]
TaskStatusUpdateEvent(id, status, final) ==
    [kind |-> "status", id |-> id, status |-> status, final |-> final]
TaskArtifactUpdateEvent(id, artifact) == [kind |-> "artifact", id |-> id, artifact |-> artifact]
InternalErrorResponse == [kind |-> "error", error |-> "InternalError"]

(* --------------------------- the collaborators ------------------------ *)

\* What the agent's stream can yield: one progress update, or a complete
\* update with one of these contents.
Response_word == <<"r", "e", "s", "p", "o", "n", "s", "e">>
Entry(k, v) == [key \in {k} |-> v]

JsonX1 == <<"{", "\"", "x", "\"", ":", "1", "}">>
JsonBroken == <<"{", "\"", "x">>

ContentText == Str(<<"o", "k">>)
ContentFlat == Dict(Entry(<<"y">>, Num(2)))
ContentInput == Dict(Entry(Response_word, Dict(Entry(Result_word, Str(JsonX1)))))
ContentBadJson == Dict(Entry(Response_word, Dict(Entry(Result_word, Str(JsonBroken)))))
ContentNoResult == Dict(Entry(Response_word, Dict(Entry(<<"a">>, Num(1)))))
ContentResponseStr == Dict(Entry(Response_word, Str(Result_word)))
Contents ==
    {ContentText, ContentFlat, ContentInput, ContentBadJson, ContentNoResult,
     ContentResponseStr}

ProgressItem == [is_task_complete |-> FALSE, updates |-> <<"u">>, content |-> Str(<<>>)]
CompleteItem(c) == [is_task_complete |-> TRUE, updates |-> <<>>, content |-> c]
StreamItems == {ProgressItem} \cup {CompleteItem(c) : c \in Contents}

\* What the agent's invoke can return.
InvokeResults ==
    {<<"o", "k">>, MISSING_INFO \o <<" ", "x">>, <<"a", " ">> \o MISSING_INFO,
     SubSeq(MISSING_INFO, 1, 12)}

SUPPORTED_CONTENT_TYPES == {"text", "text/plain"}

are_modalities_compatible(accepted, supported) ==
    \/ accepted = {}
    \/ supported = {}
    \/ accepted \cap supported # {}

\* The requests a context can send: the same identifier in two sessions, a
\* second identifier, and one request whose accepted types the agent lacks.
Query(c) == <<"q", c>>
RequestParams ==
    {[id |-> "t1", sessionId |-> "s1", acceptedOutputModes |-> {"text"}],
     [id |-> "t1", sessionId |-> "s2", acceptedOutputModes |-> {"text", "image"}],
     [id |-> "t2", sessionId |-> "s2", acceptedOutputModes |-> {"text"}],
     [id |-> "t2", sessionId |-> "s1", acceptedOutputModes |-> {"image"}]}
Requests(c) ==
    {[id |-> r.id, sessionId |-> r.sessionId, acceptedOutputModes |-> r.acceptedOutputModes,
      message |-> Message("user", <<TextPart(Query(c))>>)] : r \in RequestParams}

\* Arguments of a direct _update_store call.
DirectArtifact(c) == Artifact(<<TextPart(<<"d", c>>)>>, 0, "None")
DirectCalls(c) ==
    {[task_id |-> id, status |-> TaskStatus(WORKING, None), artifacts |-> None] :
        id \in TaskIds}
    \cup {[task_id |-> id, status |-> TaskStatus(COMPLETED, None),
           artifacts |-> Some(<<DirectArtifact(c)>>)] : id \in TaskIds}

(* ------------------------------ state --------------------------------- *)

VARIABLES
    tasks,      \* self.tasks: task identifier -> Task
    lock,       \* self.lock: "free" or the context holding it
    pc,         \* where each context is suspended
    op,         \* the operation each context runs
    req,        \* request.params of the context's request
    loc,        \* the Python locals of the context's running function
    ret,        \* what the operation returned or raised to its caller
    emitted,    \* the events the streaming generator has yielded to its consumer
    consumed,   \* is_task_complete of every item taken from agent.stream
    calls,      \* the calls the context has made and, as "raise:<where>", the
                \* exceptions raised inside the generator's try block, in order
    wrote       \* the task states the context has written to the store

\* RemoteAgentConnections (a2a_servers/agents/utils/remote_agent_connection.py)
VARIABLES
    card,           \* self.card, None before the connection is constructed
    rpc,            \* where send_task is suspended
    ncalls,         \* the send_task calls made on the connection
    request,        \* the TaskSendParams object given to send_task
    original,       \* the values the request held when send_task was called
    task_callback,  \* whether a callback was supplied
    heap,           \* the dict objects the current call can reach, by reference
    uuids,          \* how many identifiers uuid.uuid4() has generated
    latest_task,    \* the local `task` of the streaming branch
    rret,           \* what send_task returned
    sent,           \* the requests the current call made to the remote agent
    received,       \* the response payloads of the current call as they arrived
    merged,         \* the merge_metadata calls of the current call, by value
    chains,         \* the message-id chainings of the current call, by value
    callbacks       \* the payloads the current call gave to task_callback

avars == <<tasks, lock, pc, op, req, loc, ret, emitted, consumed, calls, wrote>>
rvars == <<card, rpc, ncalls, request, original, task_callback, heap, uuids, latest_task, rret,
           sent, received, merged, chains, callbacks>>
vars == <<avars, rvars>>

\* A Python object: the names of its attributes and their values.
MessageAttrs == {"role", "parts", "metadata"}
TaskSendParamsAttrs == {"id", "sessionId", "message", "acceptedOutputModes", "metadata"}
NoParams ==
    [attrs |-> {}, id |-> "", sessionId |-> "", metadata |-> None,
     message |-> [attrs |-> {}, metadata |-> None]]
NoOriginal ==
    [id |-> "", sessionId |-> "", metadata |-> None, message |-> [metadata |-> None]]

NoRequest == [id |-> "", sessionId |-> "", acceptedOutputModes |-> {}, message |-> None]
NoCall == [task_id |-> "", status |-> None, artifacts |-> None]
\* Every local unbound.
Unbound ==
    [item |-> None, is_task_complete |-> None, artifacts |-> None, task_state |-> None,
     parts |-> None, result |-> None, call |-> NoCall, was_none |-> None,
     created |-> None]
NoReturn == [kind |-> "pending"]

Init ==
    /\ tasks = <<>>
    /\ lock = "free"
    /\ pc = [c \in Contexts |-> "idle"]
    /\ op = [c \in Contexts |-> "none"]
    /\ req = [c \in Contexts |-> NoRequest]
    /\ loc = [c \in Contexts |-> Unbound]
    /\ ret = [c \in Contexts |-> NoReturn]
    /\ emitted = [c \in Contexts |-> <<>>]
    /\ consumed = [c \in Contexts |-> <<>>]
    /\ calls = [c \in Contexts |-> <<>>]
    /\ wrote = [c \in Contexts |-> <<>>]
    /\ card = None
    /\ rpc = "unconstructed"
    /\ ncalls = 0
    /\ request = NoParams
    /\ original = NoOriginal
    /\ task_callback = FALSE
    /\ heap = <<>>
    /\ uuids = 0
    /\ latest_task = None
    /\ rret = NoReturn
    /\ sent = <<>>
    /\ received = <<>>
    /\ merged = <<>>
    /\ chains = <<>>
    /\ callbacks = <<>>

(* ------------------ _validate_request, on_send_task* ------------------ *)

\* _validate_request: TRUE when it returns the incompatible-types error.
_validate_request(r) ==
    ~are_modalities_compatible(r.acceptedOutputModes, SUPPORTED_CONTENT_TYPES)

IncompatibleTypesError == [kind |-> "response", error |-> "ContentTypeNotSupported"]

\* on_send_task up to its first await.
on_send_task(c) ==
    /\ pc[c] = "idle"
    /\ \E r \in Requests(c) :
        /\ op' = [op EXCEPT ![c] = "on_send_task"]
        /\ req' = [req EXCEPT ![c] = r]
        /\ IF _validate_request(r)
           THEN /\ ret' = [ret EXCEPT ![c] = IncompatibleTypesError]
                /\ pc' = [pc EXCEPT ![c] = "done"]
           ELSE /\ ret' = ret
                /\ pc' = [pc EXCEPT ![c] = "upsert_task"]
    /\ UNCHANGED <<rvars, tasks, lock, loc, emitted, consumed, calls, wrote>>

\* on_send_task_subscribe going on to upsert_task whatever the validation says.
on_send_task_subscribe_unvalidated(c) ==
    /\ pc[c] = "idle"
    /\ \E r \in Requests(c) :
        /\ op' = [op EXCEPT ![c] = "on_send_task_subscribe"]
        /\ req' = [req EXCEPT ![c] = r]
        /\ ret' = ret
        /\ pc' = [pc EXCEPT ![c] = "upsert_task"]
    /\ UNCHANGED <<rvars, tasks, lock, loc, emitted, consumed, calls, wrote>>

\* on_send_task_subscribe up to its first await.
on_send_task_subscribe(c) ==
    /\ pc[c] = "idle"
    /\ \E r \in Requests(c) :
        /\ op' = [op EXCEPT ![c] = "on_send_task_subscribe"]
        /\ req' = [req EXCEPT ![c] = r]
        /\ IF _validate_request(r)
           THEN /\ ret' = [ret EXCEPT ![c] = IncompatibleTypesError]
                /\ pc' = [pc EXCEPT ![c] = "done"]
           ELSE /\ ret' = ret
                /\ pc' = [pc EXCEPT ![c] = "upsert_task"]
    /\ UNCHANGED <<rvars, tasks, lock, loc, emitted, consumed, calls, wrote>>

\* InMemoryTaskManager.upsert_task, one critical section of the store lock:
\* creates the Task when absent, leaves an existing one unchanged.  Then the
\* caller goes on: on_send_task to _invoke, on_send_task_subscribe returns
\* the generator object, not yet started.
NewTask(r) ==
    [id |-> r.id, sessionId |-> r.sessionId, status |-> TaskStatus(SUBMITTED, None),
     artifacts |-> None, history |-> <<r.message>>]

upsert_task(c) ==
    /\ pc[c] = "upsert_task"
    /\ lock = "free"
    /\ tasks' = IF req[c].id \in DOMAIN tasks THEN tasks
                ELSE (req[c].id :> NewTask(req[c])) @@ tasks
    /\ loc' = [loc EXCEPT ![c].created = Some(req[c].id \notin DOMAIN tasks)]
    /\ calls' = [calls EXCEPT ![c] = Append(@, "upsert_task")]
    /\ IF op[c] = "on_send_task"
       THEN /\ pc' = [pc EXCEPT ![c] = "_invoke"]
            /\ ret' = ret
       ELSE /\ pc' = [pc EXCEPT ![c] = "generator_created"]
            /\ ret' = [ret EXCEPT ![c] = [kind |-> "generator"]]
    /\ UNCHANGED <<rvars, lock, op, req, emitted, consumed, wrote>>

(* ------------------------------ _invoke ------------------------------- *)

\* _invoke testing the marker at the start of the result only.
_invoke_startswith(c) ==
    /\ pc[c] = "_invoke"
    /\ \E result \in InvokeResults :
        LET parts == <<TextPart(result)>>
            task_state == IF /\ Len(result) >= Len(MISSING_INFO)
                             /\ SubSeq(result, 1, Len(MISSING_INFO)) = MISSING_INFO
                          THEN INPUT_REQUIRED ELSE COMPLETED
        IN  loc' = [loc EXCEPT ![c].result = Some(result),
                               ![c].parts = Some(parts),
                               ![c].task_state = Some(task_state),
                               ![c].call =
                                   [task_id |-> req[c].id,
                                    status |-> TaskStatus(task_state,
                                                          Some(Message("agent", parts))),
                                    artifacts |-> Some(<<Artifact(parts, 0, "None")>>)]]
    /\ calls' = [calls EXCEPT ![c] = Append(@, "agent.invoke")]
    /\ pc' = [pc EXCEPT ![c] = "_update_store"]
    /\ UNCHANGED <<rvars, tasks, lock, op, req, ret, emitted, consumed, wrote>>

\* _invoke, agent.invoke returned `result`: the terminal-state rule of the
\* unary path and the arguments of the _update_store call that follows.
_invoke(c) ==
    /\ pc[c] = "_invoke"
    /\ \E result \in InvokeResults :
        LET parts == <<TextPart(result)>>
            task_state == IF StrContains(MISSING_INFO, result)
                          THEN INPUT_REQUIRED ELSE COMPLETED
        IN  loc' = [loc EXCEPT ![c].result = Some(result),
                               ![c].parts = Some(parts),
                               ![c].task_state = Some(task_state),
                               ![c].call =
                                   [task_id |-> req[c].id,
                                    status |-> TaskStatus(task_state,
                                                          Some(Message("agent", parts))),
                                    artifacts |-> Some(<<Artifact(parts, 0, "None")>>)]]
    /\ calls' = [calls EXCEPT ![c] = Append(@, "agent.invoke")]
    /\ pc' = [pc EXCEPT ![c] = "_update_store"]
    /\ UNCHANGED <<rvars, tasks, lock, op, req, ret, emitted, consumed, wrote>>

\* The except clause recording the failure in the task before it raises.
_invoke_except_marking(c) ==
    /\ pc[c] = "_invoke"
    /\ calls' = [calls EXCEPT ![c] = Append(@, "agent.invoke")]
    /\ tasks' = [tasks EXCEPT ![req[c].id].status = TaskStatus(COMPLETED, None)]
    /\ ret' = [ret EXCEPT ![c] = [kind |-> "raised", error |-> "Error invoking agent"]]
    /\ pc' = [pc EXCEPT ![c] = "done"]
    /\ UNCHANGED <<rvars, lock, op, req, loc, emitted, consumed, wrote>>

\* _invoke, agent.invoke raised: re-raised as ValueError out of on_send_task.
_invoke_except(c) ==
    /\ pc[c] = "_invoke"
    /\ calls' = [calls EXCEPT ![c] = Append(@, "agent.invoke")]
    /\ ret' = [ret EXCEPT ![c] = [kind |-> "raised", error |-> "Error invoking agent"]]
    /\ pc' = [pc EXCEPT ![c] = "done"]
    /\ UNCHANGED <<rvars, tasks, lock, op, req, loc, emitted, consumed, wrote>>

\* _update_store returns the task, leaving the lock, and _invoke returns it
\* in the response.
_invoke_return(c) ==
    /\ pc[c] = "return"
    /\ op[c] = "on_send_task"
    /\ lock' = "free"
    /\ ret' = [ret EXCEPT ![c] = [kind |-> "response", result |-> tasks[req[c].id]]]
    /\ pc' = [pc EXCEPT ![c] = "done"]
    /\ UNCHANGED <<rvars, tasks, op, req, loc, emitted, consumed, calls, wrote>>

(* --------------------------- _update_store ---------------------------- *)

\* A caller other than _invoke and _stream_generator calls _update_store.
_update_store(c) ==
    /\ pc[c] = "idle"
    /\ \E call \in DirectCalls(c) :
        loc' = [loc EXCEPT ![c].call = call]
    /\ op' = [op EXCEPT ![c] = "_update_store"]
    /\ pc' = [pc EXCEPT ![c] = "_update_store"]
    /\ UNCHANGED <<rvars, tasks, lock, req, ret, emitted, consumed, calls, wrote>>

\* _update_store entered without waiting for the lock.
_update_store_acquire_unlocked(c) ==
    /\ pc[c] = "_update_store"
    /\ IF loc[c].call.task_id \in DOMAIN tasks
       THEN /\ lock' = c
            /\ pc' = [pc EXCEPT ![c] = "status"]
            /\ calls' = [calls EXCEPT ![c] = Append(@, "_update_store")]
            /\ ret' = ret
       ELSE /\ lock' = "free"
            /\ IF op[c] = "on_send_task_subscribe"
               THEN /\ pc' = [pc EXCEPT ![c] = "except"]
                    /\ calls' = [calls EXCEPT ![c] = @ \o <<"_update_store", "raise:_update_store">>]
                    /\ ret' = ret
               ELSE /\ pc' = [pc EXCEPT ![c] = "done"]
                    /\ calls' = [calls EXCEPT ![c] = Append(@, "_update_store")]
                    /\ ret' = [ret EXCEPT ![c] = [kind |-> "raised",
                                                  error |-> "Task not found"]]
    /\ UNCHANGED <<rvars, tasks, op, req, loc, emitted, consumed, wrote>>

\* _update_store raising for an unknown identifier without leaving the lock.
_update_store_acquire_holding(c) ==
    /\ pc[c] = "_update_store"
    /\ lock = "free"
    /\ lock' = c
    /\ IF loc[c].call.task_id \in DOMAIN tasks
       THEN /\ pc' = [pc EXCEPT ![c] = "status"]
            /\ calls' = [calls EXCEPT ![c] = Append(@, "_update_store")]
            /\ ret' = ret
       ELSE IF op[c] = "on_send_task_subscribe"
            THEN /\ pc' = [pc EXCEPT ![c] = "except"]
                 /\ calls' = [calls EXCEPT ![c] = @ \o <<"_update_store", "raise:_update_store">>]
                 /\ ret' = ret
            ELSE /\ pc' = [pc EXCEPT ![c] = "done"]
                 /\ calls' = [calls EXCEPT ![c] = Append(@, "_update_store")]
                 /\ ret' = [ret EXCEPT ![c] = [kind |-> "raised",
                                               error |-> "Task not found"]]
    /\ UNCHANGED <<rvars, tasks, op, req, loc, emitted, consumed, wrote>>

\* async with self.lock: waits until the lock is free, then holds it;
\* task = self.tasks[task_id], where a KeyError leaves the lock and is raised
\* as ValueError: into the generator's try block, or out of the operation.
_update_store_acquire(c) ==
    /\ pc[c] = "_update_store"
    /\ lock = "free"
    /\ IF loc[c].call.task_id \in DOMAIN tasks
       THEN /\ lock' = c
            /\ pc' = [pc EXCEPT ![c] = "status"]
            /\ calls' = [calls EXCEPT ![c] = Append(@, "_update_store")]
            /\ ret' = ret
       ELSE /\ lock' = "free"
            /\ IF op[c] = "on_send_task_subscribe"
               THEN /\ pc' = [pc EXCEPT ![c] = "except"]
                    /\ calls' = [calls EXCEPT ![c] = @ \o <<"_update_store", "raise:_update_store">>]
                    /\ ret' = ret
               ELSE /\ pc' = [pc EXCEPT ![c] = "done"]
                    /\ calls' = [calls EXCEPT ![c] = Append(@, "_update_store")]
                    /\ ret' = [ret EXCEPT ![c] = [kind |-> "raised",
                                                  error |-> "Task not found"]]
    /\ UNCHANGED <<rvars, tasks, op, req, loc, emitted, consumed, wrote>>

\* task.status = status
_update_store_status(c) ==
    /\ pc[c] = "status"
    /\ tasks' = [tasks EXCEPT ![loc[c].call.task_id].status = loc[c].call.status]
    /\ wrote' = [wrote EXCEPT ![c] = Append(@, loc[c].call.status.state)]
    /\ pc' = [pc EXCEPT ![c] = "check"]
    /\ UNCHANGED <<rvars, lock, op, req, loc, ret, emitted, consumed, calls>>

\* if artifacts is not None: if task.artifacts is None:
_update_store_check(c) ==
    /\ pc[c] = "check"
    /\ IF loc[c].call.artifacts = None
       THEN /\ pc' = [pc EXCEPT ![c] = "return"]
            /\ loc' = loc
       ELSE /\ pc' = [pc EXCEPT ![c] = "init"]
            /\ loc' = [loc EXCEPT ![c].was_none =
                           Some(tasks[loc[c].call.task_id].artifacts = None)]
    /\ UNCHANGED <<rvars, tasks, lock, op, req, ret, emitted, consumed, calls, wrote>>

\* task.artifacts = []
_update_store_init(c) ==
    /\ pc[c] = "init"
    /\ tasks' = IF loc[c].was_none = Some(TRUE)
                THEN [tasks EXCEPT ![loc[c].call.task_id].artifacts = Some(<<>>)]
                ELSE tasks
    /\ pc' = [pc EXCEPT ![c] = "extend"]
    /\ UNCHANGED <<rvars, lock, op, req, loc, ret, emitted, consumed, calls, wrote>>

\* task.artifacts.extend(artifacts)
_update_store_extend(c) ==
    /\ pc[c] = "extend"
    /\ tasks' = [tasks EXCEPT ![loc[c].call.task_id].artifacts =
                     Some(@[1] \o loc[c].call.artifacts[1])]
    /\ pc' = [pc EXCEPT ![c] = "return"]
    /\ UNCHANGED <<rvars, lock, op, req, loc, ret, emitted, consumed, calls, wrote>>

\* return task, leaving the lock, to a direct caller.
_update_store_return(c) ==
    /\ pc[c] = "return"
    /\ op[c] = "_update_store"
    /\ lock' = "free"
    /\ ret' = [ret EXCEPT ![c] = [kind |-> "task", result |-> tasks[loc[c].call.task_id]]]
    /\ pc' = [pc EXCEPT ![c] = "done"]
    /\ UNCHANGED <<rvars, tasks, op, req, loc, emitted, consumed, calls, wrote>>

(* -------------------------- _stream_generator ------------------------- *)

Raised == [raised |-> TRUE]

\* `"result" in v` for the value under "response": a key test on a dict, a
\* substring test on a str, a TypeError on a number.
result_in(v) ==
    CASE v.kind = "dict" -> [raised |-> FALSE, b |-> Result_word \in DOMAIN v.d]
      [] v.kind = "str" -> [raised |-> FALSE, b |-> StrContains(Result_word, v.s)]
      [] OTHER -> Raised

\* The branch of the loop body taken by a complete item whose content is a
\* dict: data and task_state, or the exception raised on the way.
dict_content(content) ==
    IF Response_word \notin DOMAIN content.d
    THEN [raised |-> FALSE, data |-> content, task_state |-> COMPLETED]
    ELSE LET response == content.d[Response_word]
             has == result_in(response)
         IN  IF has.raised THEN Raised
             ELSE IF ~has.b
                  THEN [raised |-> FALSE, data |-> content, task_state |-> COMPLETED]
             \* indexing a str with "result" is a TypeError
             ELSE IF response.kind # "dict" THEN Raised
             \* json.loads of a value that is not a str is a TypeError
             ELSE IF response.d[Result_word].kind # "str" THEN Raised
             ELSE LET parsed == json_loads(response.d[Result_word].s) IN
                  IF ~parsed.ok THEN Raised
                  ELSE [raised |-> FALSE, data |-> parsed.v, task_state |-> INPUT_REQUIRED]

\* One pass of the loop body over `item`, from the locals `l`: the locals
\* after it and whether it raised.
loop_body(l, item) ==
    LET l1 == [l EXCEPT !.item = Some(item),
                        !.is_task_complete = Some(item.is_task_complete),
                        !.artifacts = None]
    IN  IF ~item.is_task_complete
        THEN [raised |-> FALSE,
              l |-> [l1 EXCEPT !.task_state = Some(WORKING),
                               !.parts = Some(<<TextPart(item.updates)>>)]]
        ELSE IF item.content.kind = "dict"
             THEN LET r == dict_content(item.content) IN
                  IF r.raised THEN [raised |-> TRUE, l |-> l1]
                  ELSE [raised |-> FALSE,
                        l |-> [l1 EXCEPT !.task_state = Some(r.task_state),
                                         !.parts = Some(<<DataPart(r.data)>>),
                                         !.artifacts =
                                             Some(<<Artifact(<<DataPart(r.data)>>, 0, "False")>>)]]
             ELSE [raised |-> FALSE,
                   l |-> [l1 EXCEPT !.task_state = Some(COMPLETED),
                                    !.parts = Some(<<TextPart(item.content.s)>>),
                                    !.artifacts =
                                        Some(<<Artifact(<<TextPart(item.content.s)>>, 0, "False")>>)]]

RECURSIVE SumLen(_, _)
SumLen(f, S) ==
    IF S = {} THEN 0
    ELSE LET c == CHOOSE x \in S : TRUE IN Len(f[c]) + SumLen(f, S \ {c})

\* The updates consumed so far, all exchanges together.
Updates == SumLen(consumed, Contexts)

\* The consumer asks for the first event: the generator starts and waits for
\* the agent's first update.
_stream_generator(c) ==
    /\ pc[c] = "generator_created"
    /\ calls' = [calls EXCEPT ![c] = Append(@, "agent.stream")]
    /\ pc' = [pc EXCEPT ![c] = "stream"]
    /\ UNCHANGED <<rvars, tasks, lock, op, req, loc, ret, emitted, consumed, wrote>>

\* The loop body followed, inside the loop, by the write of the status the
\* item gives.
_stream_generator_item_persisting(c) ==
    /\ pc[c] = "stream"
    /\ Updates < MaxUpdates
    /\ lock = "free"
    /\ \E item \in StreamItems :
        LET r == loop_body(loc[c], item) IN
        /\ loc' = [loc EXCEPT ![c] = r.l]
        /\ consumed' = [consumed EXCEPT ![c] = Append(@, item.is_task_complete)]
        /\ pc' = [pc EXCEPT ![c] = IF r.raised THEN "except" ELSE "stream"]
        /\ calls' = [calls EXCEPT ![c] = IF r.raised THEN Append(@, "raise:loop_body") ELSE @]
        /\ tasks' = IF r.raised THEN tasks
                    ELSE [tasks EXCEPT ![req[c].id].status =
                              TaskStatus(r.l.task_state[1],
                                         Some(Message("agent", r.l.parts[1])))]
        /\ wrote' = [wrote EXCEPT ![c] = IF r.raised THEN @
                                         ELSE Append(@, r.l.task_state[1])]
    /\ UNCHANGED <<rvars, lock, op, req, ret, emitted>>

\* async for item in self.agent.stream(...): the agent yields an item and the
\* loop body runs over it, then the loop waits for the next item.
_stream_generator_item(c) ==
    /\ pc[c] = "stream"
    /\ Updates < MaxUpdates
    /\ \E item \in StreamItems :
        LET r == loop_body(loc[c], item) IN
        /\ loc' = [loc EXCEPT ![c] = r.l]
        /\ consumed' = [consumed EXCEPT ![c] = Append(@, item.is_task_complete)]
        /\ pc' = [pc EXCEPT ![c] = IF r.raised THEN "except" ELSE "stream"]
        /\ calls' = [calls EXCEPT ![c] = IF r.raised THEN Append(@, "raise:loop_body") ELSE @]
    /\ UNCHANGED <<rvars, tasks, lock, op, req, ret, emitted, wrote>>

\* The agent's stream raises instead of yielding.
_stream_generator_raise(c) ==
    /\ pc[c] = "stream"
    /\ pc' = [pc EXCEPT ![c] = "except"]
    /\ calls' = [calls EXCEPT ![c] = Append(@, "raise:agent.stream")]
    /\ UNCHANGED <<rvars, tasks, lock, op, req, loc, ret, emitted, consumed, wrote>>

\* The agent's stream ends: the statements after the loop run once, on the
\* locals the last pass left, up to the await of _update_store.  With no pass
\* at all `parts` is unbound and the Message construction raises.
_stream_generator_exhausted(c) ==
    /\ pc[c] = "stream"
    /\ IF loc[c].parts = None \/ loc[c].task_state = None
       THEN /\ pc' = [pc EXCEPT ![c] = "except"]
            /\ calls' = [calls EXCEPT ![c] = Append(@, "raise:unbound")]
            /\ loc' = loc
       ELSE /\ pc' = [pc EXCEPT ![c] = "_update_store"]
            /\ calls' = calls
            /\ loc' = [loc EXCEPT ![c].call =
                           [task_id |-> req[c].id,
                            status |-> TaskStatus(loc[c].task_state[1],
                                                  Some(Message("agent", loc[c].parts[1]))),
                            artifacts |-> loc[c].artifacts]]
    /\ UNCHANGED <<rvars, tasks, lock, op, req, ret, emitted, consumed, wrote>>

\* _update_store returns, leaving the lock: yield the status event,
\* final=False.
_stream_generator_status(c) ==
    /\ pc[c] = "return"
    /\ op[c] = "on_send_task_subscribe"
    /\ lock' = "free"
    /\ emitted' = [emitted EXCEPT ![c] =
                       Append(@, TaskStatusUpdateEvent(req[c].id, loc[c].call.status, FALSE))]
    /\ pc' = [pc EXCEPT ![c] = "yield_status"]
    /\ UNCHANGED <<rvars, tasks, op, req, loc, ret, consumed, calls, wrote>>

\* The final event built from task_status itself, message included.
FinalEvent_with_message(c) ==
    TaskStatusUpdateEvent(req[c].id, loc[c].call.status, TRUE)

\* The final status event: the state of task_status, no message, final=True.
FinalEvent(c) ==
    TaskStatusUpdateEvent(req[c].id, TaskStatus(loc[c].call.status.state, None), TRUE)

\* Resumed after the status event: if artifacts, yield the (one) artifact
\* event; else go on to the is_task_complete test.
_stream_generator_artifacts(c) ==
    /\ pc[c] = "yield_status"
    /\ IF loc[c].artifacts # None /\ loc[c].artifacts[1] # <<>>
       THEN /\ emitted' = [emitted EXCEPT ![c] =
                               Append(@, TaskArtifactUpdateEvent(req[c].id,
                                                                 loc[c].artifacts[1][1]))]
            /\ pc' = [pc EXCEPT ![c] = "yield_artifact"]
       ELSE IF loc[c].is_task_complete = Some(TRUE)
            THEN /\ emitted' = [emitted EXCEPT ![c] = Append(@, FinalEvent(c))]
                 /\ pc' = [pc EXCEPT ![c] = "yield_final"]
            ELSE /\ emitted' = emitted
                 /\ pc' = [pc EXCEPT ![c] = "done"]
    /\ UNCHANGED <<rvars, tasks, lock, op, req, loc, ret, consumed, calls, wrote>>

\* Resumed after the artifact event: if is_task_complete, yield the final
\* status event, which carries the state alone.
_stream_generator_final(c) ==
    /\ pc[c] = "yield_artifact"
    /\ IF loc[c].is_task_complete = Some(TRUE)
       THEN /\ emitted' = [emitted EXCEPT ![c] = Append(@, FinalEvent(c))]
            /\ pc' = [pc EXCEPT ![c] = "yield_final"]
       ELSE /\ emitted' = emitted
            /\ pc' = [pc EXCEPT ![c] = "done"]
    /\ UNCHANGED <<rvars, tasks, lock, op, req, loc, ret, consumed, calls, wrote>>

\* The exception leaving the generator instead of becoming an event.
_stream_generator_except_reraise(c) ==
    /\ pc[c] = "except"
    /\ ret' = [ret EXCEPT ![c] = [kind |-> "raised", error |-> "streaming"]]
    /\ pc' = [pc EXCEPT ![c] = "done"]
    /\ UNCHANGED <<rvars, tasks, lock, op, req, loc, emitted, consumed, calls, wrote>>

\* except Exception: yield the InternalError response.
_stream_generator_except(c) ==
    /\ pc[c] = "except"
    /\ emitted' = [emitted EXCEPT ![c] = Append(@, InternalErrorResponse)]
    /\ pc' = [pc EXCEPT ![c] = "yield_error"]
    /\ UNCHANGED <<rvars, tasks, lock, op, req, loc, ret, consumed, calls, wrote>>

\* Resumed after the final event or the error event: the generator returns.
_stream_generator_stop(c) ==
    /\ pc[c] \in {"yield_final", "yield_error"}
    /\ pc' = [pc EXCEPT ![c] = "done"]
    /\ UNCHANGED <<rvars, tasks, lock, op, req, loc, ret, emitted, consumed, calls, wrote>>

\* The consumer stops asking for events before the end of the stream: the
\* generator, suspended at a yield (or not yet started), never runs again.
YieldPoints == {"generator_created", "yield_status", "yield_artifact"}

abandon(c) ==
    /\ pc[c] \in YieldPoints
    /\ pc' = [pc EXCEPT ![c] = "abandoned"]
    /\ UNCHANGED <<rvars, tasks, lock, op, req, loc, ret, emitted, consumed, calls, wrote>>

Next ==
    \E c \in Contexts :
        \/ on_send_task(c)
        \/ on_send_task_subscribe(c)
        \/ upsert_task(c)
        \/ _invoke(c)
        \/ _invoke_except(c)
        \/ _invoke_return(c)
        \/ _update_store(c)
        \/ _update_store_acquire(c)
        \/ _update_store_status(c)
        \/ _update_store_check(c)
        \/ _update_store_init(c)
        \/ _update_store_extend(c)
        \/ _update_store_return(c)
        \/ _stream_generator(c)
        \/ _stream_generator_item(c)
        \/ _stream_generator_raise(c)
        \/ _stream_generator_exhausted(c)
        \/ _stream_generator_status(c)
        \/ _stream_generator_artifacts(c)
        \/ _stream_generator_final(c)
        \/ _stream_generator_except(c)
        \/ _stream_generator_stop(c)
        \/ abandon(c)

Spec == Init /\ [][Next]_vars

(* ====================================================================== *)
(* RemoteAgentConnections.send_task and merge_metadata                    *)
(* (a2a_servers/agents/utils/remote_agent_connection.py): one connection, *)
(* its send_task calls one after the other, the remote's response        *)
(* elements arriving one by one.                                          *)
(* ====================================================================== *)

\* A metadata dict maps each key to its value, NoKey for a key it lacks.
MetaKeys == {"k", "j", "message_id", "last_message_id"}
NoKey == "<no key>"
EmptyDict == [x \in MetaKeys |-> NoKey]
Meta(key, value) == [x \in MetaKeys |-> IF x = key THEN value ELSE NoKey]
KeysOf(d) == {x \in MetaKeys : d[x] # NoKey}

\* a.update(b)
Update(a, b) == [x \in MetaKeys |-> IF b[x] # NoKey THEN b[x] ELSE a[x]]

\* str(uuid.uuid4()): the n-th identifier generated, unlike every other one.
UuidValues == <<"u1", "u2", "u3", "u4", "u5", "u6", "u7", "u8", "u9">>
uuid4(n) == UuidValues[n]

\* hasattr(o, name)
hasattr(o, name) == name \in o.attrs

\* The value of an attribute holding a dict reference or None.
Value(h, ref) == IF ref = None THEN None ELSE Some(h[ref[1]])

\* Truthiness of a metadata attribute: neither None nor the empty dict.
Truthy(h, ref) == ref # None /\ KeysOf(h[ref[1]]) # {}

\* A new dict object holding value od, or None.
Alloc(h, od) ==
    IF od = None THEN [h |-> h, ref |-> None]
    ELSE [h |-> Append(h, od[1]), ref |-> Some(Len(h) + 1)]

\* The agent cards a connection is constructed with.
AgentCards == {[streaming |-> TRUE], [streaming |-> FALSE]}

\* The requests given to send_task: metadata None, empty or with a key; the
\* message's metadata None, with a key, or with a message_id.
RemoteRequests ==
    {[id |-> "t1", sessionId |-> "s1", metadata |-> md, message |-> [metadata |-> mmd]] :
        md \in {None, Some(EmptyDict), Some(Meta("k", "req"))},
        mmd \in {None, Some(Meta("k", "req")), Some(Meta("message_id", "r0"))}}

\* A follow-up request: its message carries, as message_id, the identifier
\* the last chaining gave to the previous message of the conversation.
FollowUp(n) ==
    [id |-> "t1", sessionId |-> "s1", metadata |-> None,
     message |-> [metadata |-> Some(Meta("message_id", uuid4(n)))]]
FollowUpRequests == {FollowUp(n) : n \in 1..Len(UuidValues)}

\* response.result as it arrives: a Task, a status event, an artifact event
\* or None, with the values of its metadata and of its status message's.
Payload(kind, final, md, msg) ==
    [kind |-> kind, final |-> final, metadata |-> md, message |-> msg]
RespMessage(md) == Some([metadata |-> md])
RespDict == Update(Meta("k", "resp"), Meta("j", "resp"))
NonePayload == Payload("none", FALSE, None, None)

StreamResponses ==
    {Payload("status", FALSE, None, None),
     Payload("status", FALSE, Some(RespDict), RespMessage(None)),
     Payload("status", FALSE, Some(EmptyDict), RespMessage(Some(Meta("message_id", "m0")))),
     Payload("status", TRUE, None, RespMessage(Some(Meta("k", "resp")))),
     Payload("status", TRUE, Some(RespDict), None),
     Payload("artifact", FALSE, None, None),
     Payload("artifact", FALSE, Some(RespDict), None),
     NonePayload}

UnaryResponses ==
    {Payload("task", FALSE, md, msg) :
        md \in {None, Some(RespDict)},
        msg \in {None, RespMessage(None), RespMessage(Some(EmptyDict)),
                 RespMessage(Some(Meta("message_id", "m0")))}}
    \cup {NonePayload}

\* The attributes of each kind of payload.
PayloadAttrs(kind) ==
    CASE kind = "task" -> {"id", "sessionId", "status", "artifacts", "history", "metadata"}
      [] kind = "status" -> {"id", "status", "final", "metadata"}
      [] kind = "artifact" -> {"id", "artifact", "metadata"}
      [] OTHER -> {}

\* The response object built from an arrived payload, its dicts new objects.
Receive(h, el) ==
    LET a1 == Alloc(h, el.metadata)
        a2 == IF el.message = None THEN [h |-> a1.h, ref |-> None]
              ELSE Alloc(a1.h, el.message[1].metadata)
    IN  [h |-> a2.h,
         result |-> [attrs |-> PayloadAttrs(el.kind), kind |-> el.kind, final |-> el.final,
                     metadata |-> a1.ref,
                     message |-> IF el.message = None THEN None
                                 ELSE Some([attrs |-> MessageAttrs, metadata |-> a2.ref])]]

\* merge_metadata keeping the target's value on a key both dicts hold.
merge_metadata_target_wins(h, target, source) ==
    IF ~hasattr(target, "metadata") \/ ~hasattr(source, "metadata")
    THEN [h |-> h, target |-> target]
    ELSE IF Truthy(h, target.metadata) /\ Truthy(h, source.metadata)
    THEN [h |-> [h EXCEPT ![target.metadata[1]] = Update(h[source.metadata[1]], @)],
          target |-> target]
    ELSE IF Truthy(h, source.metadata)
    THEN [h |-> Append(h, h[source.metadata[1]]),
          target |-> [target EXCEPT !.metadata = Some(Len(h) + 1)]]
    ELSE [h |-> h, target |-> target]

\* merge_metadata giving the target the source's dict itself, not a copy.
merge_metadata_aliasing(h, target, source) ==
    IF ~hasattr(target, "metadata") \/ ~hasattr(source, "metadata")
    THEN [h |-> h, target |-> target]
    ELSE IF Truthy(h, target.metadata) /\ Truthy(h, source.metadata)
    THEN [h |-> [h EXCEPT ![target.metadata[1]] = Update(@, h[source.metadata[1]])],
          target |-> target]
    ELSE IF Truthy(h, source.metadata)
    THEN [h |-> h, target |-> [target EXCEPT !.metadata = source.metadata]]
    ELSE [h |-> h, target |-> target]

\* merge_metadata(target, source): the dict objects and the target after it.
merge_metadata(h, target, source) ==
    IF ~hasattr(target, "metadata") \/ ~hasattr(source, "metadata")
    THEN [h |-> h, target |-> target]
    \* target.metadata.update(source.metadata)
    ELSE IF Truthy(h, target.metadata) /\ Truthy(h, source.metadata)
    THEN [h |-> [h EXCEPT ![target.metadata[1]] = Update(@, h[source.metadata[1]])],
          target |-> target]
    \* target.metadata = dict(**source.metadata)
    ELSE IF Truthy(h, source.metadata)
    THEN [h |-> Append(h, h[source.metadata[1]]),
          target |-> [target EXCEPT !.metadata = Some(Len(h) + 1)]]
    ELSE [h |-> h, target |-> target]

\* What one merge_metadata call did, by value; `aliased` when the target
\* ends up holding the very dict object of the source.
MergeRecord(h, target, source, m) ==
    [attrs |-> hasattr(target, "metadata") /\ hasattr(source, "metadata"),
     target |-> Value(h, target.metadata),
     source |-> Value(h, source.metadata),
     after |-> Value(m.h, m.target.metadata),
     source_after |-> Value(m.h, source.metadata),
     aliased |-> m.target.metadata # None /\ m.target.metadata = source.metadata]

\* The chaining assigning the new message_id over the old one, which is lost.
message_id_chaining_overwriting(h, m, id) ==
    LET new == ~Truthy(h, m.metadata)
        h1 == IF new THEN Append(h, EmptyDict) ELSE h
        ref == IF new THEN Len(h) + 1 ELSE m.metadata[1]
        d2 == [h1[ref] EXCEPT !["message_id"] = id]
    IN  [h |-> [h1 EXCEPT ![ref] = d2], m |-> [m EXCEPT !.metadata = Some(ref)]]

\* m = response.result.status.message; if not m.metadata: m.metadata = {};
\* if 'message_id' in m.metadata: last_message_id takes it; message_id = id.
message_id_chaining(h, m, id) ==
    LET new == ~Truthy(h, m.metadata)
        h1 == IF new THEN Append(h, EmptyDict) ELSE h
        ref == IF new THEN Len(h) + 1 ELSE m.metadata[1]
        d == h1[ref]
        d1 == IF d["message_id"] # NoKey
              THEN [d EXCEPT !["last_message_id"] = d["message_id"]]
              ELSE d
        d2 == [d1 EXCEPT !["message_id"] = id]
    IN  [h |-> [h1 EXCEPT ![ref] = d2], m |-> [m EXCEPT !.metadata = Some(ref)]]

\* The statements send_task runs on one response, streamed or not, up to
\* the callback: merge into the payload; if it has a status message, merge
\* into the message, then chain its message_id.
on_response(h, n, el, rq) ==
    LET r0 == Receive(h, el)
        m1 == merge_metadata(r0.h, r0.result, rq)
        log1 == MergeRecord(r0.h, r0.result, rq, m1)
        result1 == m1.target
        has_message == hasattr(result1, "status") /\ result1.message # None
        m2 == merge_metadata(m1.h, result1.message[1], rq.message)
        log2 == MergeRecord(m1.h, result1.message[1], rq.message, m2)
        ch == message_id_chaining(m2.h, m2.target, uuid4(n + 1))
    IN  IF has_message
        THEN [h |-> ch.h,
              result |-> [result1 EXCEPT !.message = Some(ch.m)],
              uuids |-> n + 1,
              merged |-> <<log1, log2>>,
              chains |-> <<[before |-> Value(m2.h, m2.target.metadata),
                            after |-> ch.h[ch.m.metadata[1]],
                            element |-> Len(received) + 1]>>]
        ELSE [h |-> m1.h, result |-> result1, uuids |-> n,
              merged |-> <<log1>>, chains |-> <<>>]

\* What the callback (or the caller) sees of a payload: its values.
Snapshot(h, result) ==
    [by |-> "remote", kind |-> result.kind, final |-> result.final,
     metadata |-> Value(h, result.metadata),
     message |-> IF result.message = None THEN None
                 ELSE Some([metadata |-> Value(h, result.message[1].metadata)])]

\* Task(id=request.id, sessionId=request.sessionId,
\*      status=TaskStatus(state=SUBMITTED, message=request.message), ...)
SubmittedTask(h, rq) ==
    [by |-> "send_task", kind |-> "task", final |-> FALSE, metadata |-> None,
     message |-> Some([metadata |-> Value(h, rq.message.metadata)]),
     id |-> rq.id, sessionId |-> rq.sessionId, state |-> SUBMITTED]

\* The Task the callback returns from its n-th invocation.
CallbackTask(n) == [kind |-> "callback task", invocation |-> n]

Returned(v) == [kind |-> "returned", value |-> v]

\* RemoteAgentConnections(agent_card)
__init__(agent_card) ==
    /\ rpc = "unconstructed"
    /\ card' = Some(agent_card)
    /\ rpc' = "ready"
    /\ UNCHANGED <<avars, ncalls, request, original, task_callback, heap, uuids,
                   latest_task, rret, sent, received, merged, chains, callbacks>>

\* send_task discarding nothing: the local `task` takes what the callback
\* returns for the SUBMITTED snapshot.
send_task_keeping_submitted(r, cb) ==
    /\ rpc \in {"ready", "returned"}
    /\ ncalls < MaxCalls
    /\ r \in FollowUpRequests => (uuids > 0 /\ r = FollowUp(uuids))
    /\ ncalls' = ncalls + 1
    /\ LET a1 == Alloc(<<>>, r.metadata)
           a2 == Alloc(a1.h, r.message.metadata)
           rq == [attrs |-> TaskSendParamsAttrs, id |-> r.id, sessionId |-> r.sessionId,
                  metadata |-> a1.ref,
                  message |-> [attrs |-> MessageAttrs, metadata |-> a2.ref]]
       IN  /\ request' = rq
           /\ heap' = a2.h
           /\ IF card[1].streaming
              THEN /\ callbacks' = IF cb THEN <<SubmittedTask(a2.h, rq)>> ELSE <<>>
                   /\ latest_task' = IF cb THEN Some(CallbackTask(1)) ELSE None
                   /\ sent' = <<"send_task_streaming">>
                   /\ rpc' = "stream"
              ELSE /\ callbacks' = <<>>
                   /\ latest_task' = None
                   /\ sent' = <<"send_task">>
                   /\ rpc' = "await"
    /\ original' = r
    /\ task_callback' = cb
    /\ rret' = NoReturn
    /\ received' = <<>>
    /\ merged' = <<>>
    /\ chains' = <<>>
    /\ UNCHANGED <<avars, card, uuids>>

\* send_task(request, task_callback) up to its first await: on a streaming
\* card task = None, the callback gets the SUBMITTED snapshot and the
\* streamed call is opened; otherwise the unary request is sent.
send_task(r, cb) ==
    /\ rpc \in {"ready", "returned"}
    /\ ncalls < MaxCalls
    /\ r \in FollowUpRequests => (uuids > 0 /\ r = FollowUp(uuids))
    /\ ncalls' = ncalls + 1
    /\ LET a1 == Alloc(<<>>, r.metadata)
           a2 == Alloc(a1.h, r.message.metadata)
           rq == [attrs |-> TaskSendParamsAttrs, id |-> r.id, sessionId |-> r.sessionId,
                  metadata |-> a1.ref,
                  message |-> [attrs |-> MessageAttrs, metadata |-> a2.ref]]
       IN  /\ request' = rq
           /\ heap' = a2.h
           /\ IF card[1].streaming
              THEN /\ callbacks' = IF cb THEN <<SubmittedTask(a2.h, rq)>> ELSE <<>>
                   /\ sent' = <<"send_task_streaming">>
                   /\ rpc' = "stream"
              ELSE /\ callbacks' = <<>>
                   /\ sent' = <<"send_task">>
                   /\ rpc' = "await"
    /\ latest_task' = None
    /\ original' = r
    /\ task_callback' = cb
    /\ rret' = NoReturn
    /\ received' = <<>>
    /\ merged' = <<>>
    /\ chains' = <<>>
    /\ UNCHANGED <<avars, card, uuids>>

\* The streaming loop going on to the next element after a final one.
send_task_streaming_past_final(el) ==
    /\ rpc = "stream"
    /\ Len(received) < MaxElements
    /\ LET p == on_response(heap, uuids, el, request) IN
        /\ heap' = p.h
        /\ uuids' = p.uuids
        /\ received' = Append(received, el)
        /\ merged' = merged \o p.merged
        /\ chains' = chains \o p.chains
        /\ IF task_callback
           THEN /\ callbacks' = Append(callbacks, Snapshot(p.h, p.result))
                /\ latest_task' = Some(CallbackTask(Len(callbacks) + 1))
           ELSE /\ callbacks' = callbacks
                /\ latest_task' = latest_task
        /\ rpc' = "stream"
        /\ rret' = rret
    /\ UNCHANGED <<avars, card, ncalls, request, original, task_callback, sent>>

\* async for response in send_task_streaming(...): one element arrives and
\* the loop body runs over it: merge, chaining, callback, break on final.
send_task_streaming(el) ==
    /\ rpc = "stream"
    /\ Len(received) < MaxElements
    /\ LET p == on_response(heap, uuids, el, request) IN
        /\ heap' = p.h
        /\ uuids' = p.uuids
        /\ received' = Append(received, el)
        /\ merged' = merged \o p.merged
        /\ chains' = chains \o p.chains
        /\ IF task_callback
           THEN /\ callbacks' = Append(callbacks, Snapshot(p.h, p.result))
                /\ latest_task' = Some(CallbackTask(Len(callbacks) + 1))
           ELSE /\ callbacks' = callbacks
                /\ latest_task' = latest_task
        /\ IF hasattr(p.result, "final") /\ p.result.final
           THEN /\ rpc' = "returned"
                /\ rret' = Returned(latest_task')
           ELSE /\ rpc' = "stream"
                /\ rret' = rret
    /\ UNCHANGED <<avars, card, ncalls, request, original, task_callback, sent>>

\* The remote stream ends: return task.
send_task_return ==
    /\ rpc = "stream"
    /\ rpc' = "returned"
    /\ rret' = Returned(latest_task)
    /\ UNCHANGED <<avars, card, ncalls, request, original, task_callback, heap, uuids,
                   latest_task, sent, received, merged, chains, callbacks>>

\* The unary branch returning what the callback returned.
send_task_unary_returning_callback(el) ==
    /\ rpc = "await"
    /\ LET p == on_response(heap, uuids, el, request) IN
        /\ heap' = p.h
        /\ uuids' = p.uuids
        /\ received' = Append(received, el)
        /\ merged' = merged \o p.merged
        /\ chains' = chains \o p.chains
        /\ callbacks' = IF task_callback THEN Append(callbacks, Snapshot(p.h, p.result))
                        ELSE callbacks
        /\ rret' = IF task_callback THEN Returned(Some(CallbackTask(Len(callbacks) + 1)))
                   ELSE Returned(IF p.result.kind = "none" THEN None
                                 ELSE Some(Snapshot(p.h, p.result)))
    /\ rpc' = "returned"
    /\ UNCHANGED <<avars, card, ncalls, request, original, task_callback, latest_task, sent>>

\* response = await self.agent_client.send_task(...): the one response
\* arrives; merge, chaining, callback; return response.result.
send_task_unary(el) ==
    /\ rpc = "await"
    /\ LET p == on_response(heap, uuids, el, request) IN
        /\ heap' = p.h
        /\ uuids' = p.uuids
        /\ received' = Append(received, el)
        /\ merged' = merged \o p.merged
        /\ chains' = chains \o p.chains
        /\ callbacks' = IF task_callback THEN Append(callbacks, Snapshot(p.h, p.result))
                        ELSE callbacks
        /\ rret' = Returned(IF p.result.kind = "none" THEN None
                            ELSE Some(Snapshot(p.h, p.result)))
    /\ rpc' = "returned"
    /\ UNCHANGED <<avars, card, ncalls, request, original, task_callback, latest_task, sent>>

NextRemote ==
    \/ \E agent_card \in AgentCards : __init__(agent_card)
    \/ \E r \in RemoteRequests \cup FollowUpRequests, cb \in BOOLEAN : send_task(r, cb)
    \/ \E el \in StreamResponses : send_task_streaming(el)
    \/ send_task_return
    \/ \E el \in UnaryResponses : send_task_unary(el)

SpecRemote == Init /\ [][NextRemote]_vars

(* ------------------------------ properties ---------------------------- *)

Terminal == {INPUT_REQUIRED, COMPLETED}
Streaming(c) == op[c] = "on_send_task_subscribe"
Unary(c) == op[c] = "on_send_task"

\* The task identifier a context's operation is about.
TargetId(c) == IF op[c] = "_update_store" THEN loc[c].call.task_id ELSE req[c].id

\* No other context has started an operation on the same identifier.
Alone(c) == \A d \in Contexts \ {c} : op[d] = "none" \/ TargetId(d) # TargetId(c)

IsStatusEvent(e) == e.kind = "status"
IsArtifactEvent(e) == e.kind = "artifact"
IsErrorEvent(e) == e.kind = "error"
IsFinalEvent(e) == IsStatusEvent(e) /\ e.final
IsWorkingEvent(e) == IsStatusEvent(e) /\ ~e.final /\ e.status.state = WORKING
NoErrorEvent(es) == \A i \in 1..Len(es) : ~IsErrorEvent(es[i])

\* k >= 1 non-complete updates followed by one complete update.
ProgressThenComplete(flags) ==
    /\ Len(flags) >= 2
    /\ flags[Len(flags)]
    /\ \A i \in 1..(Len(flags) - 1) : ~flags[i]

\* C1: a streaming exchange that consumed k non-complete updates and then one
\* complete update, and ended without an error, has emitted k non-final
\* WORKING status events followed by the three terminal events.
C1_WorkingEventPerUpdate ==
    \A c \in Contexts :
        (/\ Streaming(c)
         /\ pc[c] = "done"
         /\ ProgressThenComplete(consumed[c])
         /\ NoErrorEvent(emitted[c]))
        => /\ Len(emitted[c]) = Len(consumed[c]) + 2
           /\ \A i \in 1..(Len(consumed[c]) - 1) : IsWorkingEvent(emitted[c][i])

\* C2: in the events of a streaming exchange every artifact event comes
\* right after the non-final status event that carries the same terminal
\* status and the message with the artifact's parts; a final=true event is
\* the last event, follows the artifact event, and carries the terminal
\* state and no message; an exchange that ended without error on a complete
\* last update has emitted exactly status, artifact, final.
C2_EventOrder ==
    \A c \in Contexts :
        LET es == emitted[c] IN
        /\ \A i \in 1..Len(es) :
            /\ IsArtifactEvent(es[i]) =>
                /\ i > 1
                /\ IsStatusEvent(es[i - 1])
                /\ ~es[i - 1].final
                /\ es[i - 1].status.state \in Terminal
                /\ es[i - 1].status.message = Some(Message("agent", es[i].artifact.parts))
            /\ IsFinalEvent(es[i]) =>
                /\ i = Len(es)
                /\ i > 2
                /\ IsArtifactEvent(es[i - 1])
                /\ es[i].status.message = None
                /\ es[i].status.state = es[i - 2].status.state
        /\ (/\ pc[c] = "done"
            /\ Streaming(c)
            /\ consumed[c] # <<>>
            /\ consumed[c][Len(consumed[c])]
            /\ es # <<>>
            /\ NoErrorEvent(es))
           => /\ Len(es) = 3
              /\ IsStatusEvent(es[1]) /\ ~es[1].final
              /\ IsArtifactEvent(es[2])
              /\ IsFinalEvent(es[3])

\* C2 witness: an exchange that consumed a progress update and a complete
\* one has ended with its final event delivered.
C2_Witness ==
    \E c \in Contexts :
        /\ pc[c] = "done"
        /\ consumed[c] = <<FALSE, TRUE>>
        /\ Len(emitted[c]) = 3
        /\ IsFinalEvent(emitted[c][3])

\* C3: a consumer that abandons the stream right after its first event,
\* when the agent's first update was a non-complete one and no other
\* operation uses the identifier, leaves the stored task WORKING.
C3_AbandonLeavesWorking ==
    \A c \in Contexts :
        (/\ Streaming(c)
         /\ pc[c] = "abandoned"
         /\ Len(emitted[c]) = 1
         /\ consumed[c] # <<>>
         /\ ~consumed[c][1]
         /\ Alone(c))
        => tasks[req[c].id].status.state = WORKING

\* The contexts that have started an operation on identifier id.
Users(id) == {c \in Contexts : op[c] # "none" /\ TargetId(c) = id}

\* s -> t is no move, or a move along SUBMITTED -> WORKING -> terminal.
Forward(s, t) ==
    \/ s = t
    \/ s = SUBMITTED /\ t \in {WORKING} \cup Terminal
    \/ s = WORKING /\ t \in Terminal

\* C4 as stated: whatever operations run, every stored task's state only
\* moves along SUBMITTED -> WORKING -> {INPUT_REQUIRED, COMPLETED}, and a
\* terminal state is never overwritten by a different one.
C4_TerminalNeverLeft ==
    [][\A id \in DOMAIN tasks :
          Forward(tasks[id].status.state, tasks'[id].status.state)]_vars

\* C4 amended: the state of a task whose identifier is used by one operation
\* only moves along SUBMITTED -> WORKING -> {INPUT_REQUIRED, COMPLETED}.
C4_ForwardWithinExchange ==
    [][\A id \in DOMAIN tasks :
          Cardinality(Users(id)') <= 1
              => Forward(tasks[id].status.state, tasks'[id].status.state)]_vars

\* C4 witness: an exchange that is alone on its identifier has written a
\* terminal state.
C4_Witness ==
    \E c \in Contexts :
        /\ Alone(c)
        /\ wrote[c] # <<>>
        /\ TargetId(c) \in DOMAIN tasks
        /\ tasks[TargetId(c)].status.state \in Terminal

\* A context whose _update_store call has extended the task's artifacts.
Contributed(c) ==
    /\ wrote[c] # <<>>
    /\ loc[c].call.artifacts # None
    /\ pc[c] \notin {"check", "init", "extend"}

Contributors(id) == {c \in Contexts : Contributed(c) /\ TargetId(c) = id}

\* C5: under every interleaving of the _update_store calls on one
\* identifier, the task's artifact list holds the artifact of every call
\* that has extended it: none is lost.
C5_NoLostUpdate ==
    \A id \in DOMAIN tasks :
        IF tasks[id].artifacts = None
        THEN Contributors(id) = {}
        ELSE LET list == tasks[id].artifacts[1] IN
             /\ Len(list) = Cardinality(Contributors(id))
             /\ \A c \in Contributors(id) :
                    \E i \in 1..Len(list) : list[i] = loc[c].call.artifacts[1][1]

\* C5 witness: two contexts have both extended the artifacts of one task,
\* the second having waited for the lock while the first held it.
C5_Witness ==
    \E id \in DOMAIN tasks :
        /\ Cardinality(Contributors(id)) = 2
        /\ \A c \in Contributors(id) : loc[c].was_none # None
        /\ \E c \in Contributors(id) : loc[c].was_none = Some(FALSE)

RaiseMarks == {"raise:agent.stream", "raise:loop_body", "raise:unbound", "raise:_update_store"}

RECURSIVE Count(_, _)
\* The number of elements of sequence s that are in set S.
Count(s, S) ==
    IF s = <<>> THEN 0 ELSE (IF Head(s) \in S THEN 1 ELSE 0) + Count(Tail(s), S)

ErrorEvents(es) == Len(SelectSeq(es, IsErrorEvent))

\* The state and the parts the terminal-state rule gives a complete update.
C6_Expected(content) ==
    IF content = ContentInput
    THEN [state |-> INPUT_REQUIRED, parts |-> <<DataPart(Dict(Entry(<<"x">>, Num(1))))>>]
    ELSE IF content.kind = "dict"
         THEN [state |-> COMPLETED, parts |-> <<DataPart(content)>>]
         ELSE [state |-> COMPLETED, parts |-> <<TextPart(content.s)>>]

\* C6: when the last update of a streaming exchange is a complete one (its
\* "result", if it has one, holding JSON) and the agent's stream ended
\* without raising, the first event is the status the terminal-state rule
\* gives: INPUT_REQUIRED with the parsed inner JSON for a content with
\* response.result, COMPLETED with the raw payload for every other content;
\* and exactly one artifact, index 0, append false, was built from the parts.
C6_TerminalRule ==
    \A c \in Contexts :
        (/\ Streaming(c)
         /\ emitted[c] # <<>>
         /\ consumed[c] # <<>>
         /\ consumed[c][Len(consumed[c])]
         /\ loc[c].item[1].content # ContentBadJson
         /\ "raise:agent.stream" \notin {calls[c][i] : i \in 1..Len(calls[c])})
        => LET want == C6_Expected(loc[c].item[1].content)
               first == emitted[c][1]
           IN  /\ IsStatusEvent(first)
               /\ first.status = TaskStatus(want.state, Some(Message("agent", want.parts)))
               /\ loc[c].artifacts = Some(<<Artifact(want.parts, 0, "False")>>)

\* The results of InvokeResults that contain the marker.
C7_WithMarker == {MISSING_INFO \o <<" ", "x">>, <<"a", " ">> \o MISSING_INFO}

UnaryReturned(c) == Unary(c) /\ ret[c].kind = "response" /\ "result" \in DOMAIN ret[c]

\* C7: a unary exchange of a valid request that has returned called
\* upsert_task, agent.invoke and _update_store once each, in that order;
\* wrote one status, INPUT_REQUIRED exactly when the result contains
\* "MISSING_INFO:" and COMPLETED otherwise, with the message holding the
\* result's text part; appended one artifact holding that part; and returned
\* the stored task.  While no other operation uses its identifier the task
\* is never WORKING.
C7_UnaryResult ==
    \A c \in Contexts :
        /\ UnaryReturned(c) =>
            LET result == loc[c].result[1]
                state == IF result \in C7_WithMarker THEN INPUT_REQUIRED ELSE COMPLETED
                part == TextPart(result)
                task == ret[c].result
            IN  /\ calls[c] = <<"upsert_task", "agent.invoke", "_update_store">>
                /\ wrote[c] = <<state>>
                /\ task.id = req[c].id
                /\ task.status = TaskStatus(state, Some(Message("agent", <<part>>)))
                /\ task.artifacts # None
                /\ task.artifacts[1] # <<>>
                /\ task.artifacts[1][Len(task.artifacts[1])] = Artifact(<<part>>, 0, "None")
                /\ Alone(c) => /\ tasks[req[c].id] = task
                               /\ Len(task.artifacts[1]) = 1
        /\ (Unary(c) /\ Alone(c) /\ req[c].id \in DOMAIN tasks)
            => tasks[req[c].id].status.state # WORKING

\* C7 witness: a unary exchange has returned INPUT_REQUIRED for a result that
\* has the marker after other text.
C7_Witness ==
    \E c \in Contexts :
        /\ UnaryReturned(c)
        /\ loc[c].result = Some(<<"a", " ">> \o MISSING_INFO)
        /\ ret[c].result.status.state = INPUT_REQUIRED

\* C8: in a streaming exchange no exception leaves the generator; every
\* exception raised in its try block (by the agent's stream, by the loop
\* body with json.loads, by the statements after the loop, by
\* _update_store) has become exactly one error event once the except clause
\* has run; the error event is the last event, and after it the generator
\* only ends.
C8_ErrorBecomesOneEvent ==
    \A c \in Contexts :
        Streaming(c) =>
            LET raises == Count(calls[c], RaiseMarks)
                es == emitted[c]
            IN  /\ ret[c].kind # "raised"
                /\ raises <= 1
                /\ pc[c] # "except" => ErrorEvents(es) = raises
                /\ \A i \in 1..Len(es) : IsErrorEvent(es[i]) => i = Len(es)
                /\ raises = 1 => pc[c] \in {"except", "yield_error", "done"}

\* C8 witness: the inner "result" of a complete update failed to parse and
\* the exchange ended with the error event as its only event.
C8_Witness ==
    \E c \in Contexts :
        /\ pc[c] = "done"
        /\ loc[c].item = Some(CompleteItem(ContentBadJson))
        /\ calls[c] = <<"upsert_task", "agent.stream", "raise:loop_body">>
        /\ emitted[c] = <<InternalErrorResponse>>

Incompatible(c) ==
    /\ (Unary(c) \/ Streaming(c))
    /\ req[c].acceptedOutputModes # {}
    /\ req[c].acceptedOutputModes \cap SUPPORTED_CONTENT_TYPES = {}

\* C9: an on_send_task or on_send_task_subscribe whose request accepts no
\* type the agent supports has returned the incompatible-types error at
\* once: it called neither upsert_task, nor the agent, nor _update_store,
\* wrote nothing, emitted nothing, and, when no other operation uses the
\* identifier, the store has no task for it.
C9_IncompatibleRejected ==
    \A c \in Contexts :
        Incompatible(c) =>
            /\ pc[c] = "done"
            /\ ret[c] = IncompatibleTypesError
            /\ calls[c] = <<>>
            /\ wrote[c] = <<>>
            /\ emitted[c] = <<>>
            /\ consumed[c] = <<>>
            /\ Alone(c) => req[c].id \notin DOMAIN tasks

\* C9 witness: both operations have rejected an incompatible request.
C9_Witness ==
    /\ \E c \in Contexts : Incompatible(c) /\ Unary(c)
    /\ \E c \in Contexts : Incompatible(c) /\ Streaming(c)

InvokeFailed(c) == Unary(c) /\ ret[c].kind = "raised"

\* C10 as stated: the step in which the agent fails in a unary exchange
\* leaves the task SUBMITTED and without artifacts.
C10_FailureLeavesSubmitted ==
    [][\A c \in Contexts :
          (~InvokeFailed(c) /\ InvokeFailed(c)')
              => /\ tasks'[req[c].id].status.state = SUBMITTED
                 /\ tasks'[req[c].id].artifacts = None]_vars

\* C10 amended: when the agent fails in a unary exchange the failure is
\* raised to the caller, the failing step leaves every task as it was, and
\* the exchange has written nothing after its upsert; the task is SUBMITTED
\* without artifacts when no other operation uses the identifier.
C10_FailureWritesNothing ==
    /\ [](\A c \in Contexts :
            InvokeFailed(c) =>
                /\ pc[c] = "done"
                /\ ret[c].error = "Error invoking agent"
                /\ calls[c] = <<"upsert_task", "agent.invoke">>
                /\ wrote[c] = <<>>
                /\ Alone(c) => tasks[req[c].id] = NewTask(req[c]))
    /\ [][\A c \in Contexts : (~InvokeFailed(c) /\ InvokeFailed(c)') => tasks' = tasks]_vars

\* C10 witness: the agent failed in a unary exchange on an identifier whose
\* task an earlier exchange had completed.
C10_Witness ==
    \E c \in Contexts :
        /\ InvokeFailed(c)
        /\ loc[c].created = Some(FALSE)
        /\ tasks[req[c].id].status.state = COMPLETED

TaskNotFound == [kind |-> "raised", error |-> "Task not found"]

\* C11: an _update_store call whose task identifier is not in the store
\* fails with the not-found error (raised to a direct caller), leaves the
\* lock free and leaves every task as it was: no task is created, no status
\* and no artifact is written; a caller that got the error wrote nothing.
C11_UnknownIdFails ==
    /\ [](\A c \in Contexts :
            ret[c] = TaskNotFound =>
                /\ pc[c] = "done"
                /\ wrote[c] = <<>>
                /\ calls[c] = <<"_update_store">>)
    /\ [][\A c \in Contexts :
            (/\ pc[c] = "_update_store"
             /\ pc'[c] # "_update_store"
             /\ loc[c].call.task_id \notin DOMAIN tasks)
            => /\ tasks' = tasks
               /\ lock' = "free"
               /\ wrote' = wrote
               /\ op[c] = "_update_store" => ret'[c] = TaskNotFound]_vars

\* C11 witness: a direct _update_store call on an unknown identifier has
\* failed while the store holds another task, the lock being free.
C11_Witness ==
    \E c \in Contexts :
        /\ ret[c] = TaskNotFound
        /\ loc[c].call.task_id \notin DOMAIN tasks
        /\ tasks # <<>>
        /\ lock = "free"

\* The context's request passed validation and its upsert_task has run.
Upserted(c) == (Unary(c) \/ Streaming(c)) /\ loc[c].created # None

\* C17: for every valid request handled by on_send_task or
\* on_send_task_subscribe, a reused identifier included, the stored task has
\* the request's identifier and the request's session identifier.
C17_StoredIdentity ==
    \A c \in Contexts :
        Upserted(c) =>
            /\ req[c].id \in DOMAIN tasks
            /\ tasks[req[c].id].id = req[c].id
            /\ tasks[req[c].id].sessionId = req[c].sessionId

\* The generator of a streaming exchange ran to its end.
StreamEnded(c) ==
    /\ Streaming(c)
    /\ pc[c] = "done"
    /\ ret[c].kind = "generator"

IsEndMarker(e) == IsFinalEvent(e) \/ IsErrorEvent(e)

\* C18: whatever finite sequence of updates the agent gave, the events of a
\* streaming exchange that ran to its end hold exactly one end marker (a
\* final=true status event or an error event), and it is the last event.
C18_OneEndMarkerLast ==
    \A c \in Contexts :
        StreamEnded(c) =>
            LET es == emitted[c] IN
            /\ es # <<>>
            /\ IsEndMarker(es[Len(es)])
            /\ Len(SelectSeq(es, IsEndMarker)) = 1

IsTrue(b) == b

\* The stored artifact list of task id, empty when the task has none.
StoredArtifacts(id) ==
    IF tasks[id].artifacts = None THEN <<>> ELSE tasks[id].artifacts[1]

\* C19: in a streaming exchange that is alone on its identifier and in
\* which nothing raised, the store holds the state of every status event
\* when it is emitted and holds the artifact of every artifact event; and
\* once the exchange has ended the stored artifact list has one artifact
\* per complete update consumed and none for the non-complete ones.
C19_PersistBeforeEmit ==
    \A c \in Contexts :
        (Streaming(c) /\ Alone(c) /\ Count(calls[c], RaiseMarks) = 0) =>
            LET es == emitted[c] IN
            /\ \A i \in 1..Len(es) :
                /\ IsStatusEvent(es[i]) =>
                       tasks[req[c].id].status.state = es[i].status.state
                /\ IsArtifactEvent(es[i]) =>
                       \E k \in 1..Len(StoredArtifacts(req[c].id)) :
                           StoredArtifacts(req[c].id)[k] = es[i].artifact
            /\ StreamEnded(c) =>
                   Len(StoredArtifacts(req[c].id)) = Len(SelectSeq(consumed[c], IsTrue))

(* --------------------- properties of send_task ------------------------ *)

StreamingCard == card # None /\ card[1].streaming
UnaryCard == card # None /\ ~card[1].streaming
Called == rpc \in {"stream", "await", "returned"}

\* The arrived payload is marked final: it has the attribute and it is true.
MarkedFinal(el) == el.kind = "status" /\ el.final
HasStatusMessage(el) == el.kind \in {"task", "status"} /\ el.message # None

\* C12: on a streaming card, send_task with a callback has called it first
\* with the SUBMITTED snapshot of the request, before any response element,
\* then once per element consumed, in arrival order; an element marked final
\* is the last one consumed and send_task has returned on it: nothing after
\* it is merged, chained or given to the callback.  Without a callback
\* nothing is called and the final element still ends the loop.
C12_CallbackPerElement ==
    (StreamingCard /\ Called) =>
        /\ sent = <<"send_task_streaming">>
        /\ \A i \in 1..Len(received) :
               MarkedFinal(received[i]) => (i = Len(received) /\ rpc = "returned")
        /\ Len(merged) = Len(received) + Len(chains)
        /\ Len(chains) = Len(SelectSeq(received, HasStatusMessage))
        /\ IF task_callback
           THEN /\ Len(callbacks) = 1 + Len(received)
                /\ callbacks[1] = SubmittedTask(heap, request)
                /\ callbacks[1].message = Some([metadata |-> original.message.metadata])
                /\ \A i \in 1..Len(received) :
                       /\ callbacks[i + 1].by = "remote"
                       /\ callbacks[i + 1].kind = received[i].kind
                       /\ callbacks[i + 1].final = received[i].final
                       /\ (callbacks[i + 1].message = None) = (received[i].message = None)
           ELSE callbacks = <<>>

\* C12 witness: with a callback, a non-final element and then a final one
\* were consumed and send_task returned.
C12_Witness ==
    /\ StreamingCard
    /\ task_callback
    /\ rpc = "returned"
    /\ Len(received) = 2
    /\ ~MarkedFinal(received[1])
    /\ MarkedFinal(received[2])
    /\ Len(callbacks) = 3

\* C13: on a streaming card send_task returns the Task the callback returned
\* for the last element consumed; None when no callback was supplied or no
\* element arrived, the SUBMITTED callback's return being dropped.
C13_StreamingReturn ==
    (StreamingCard /\ rpc = "returned") =>
        rret = Returned(IF task_callback /\ received # <<>>
                        THEN Some(CallbackTask(Len(callbacks)))
                        ELSE None)

\* C13 witness: the callback got the SUBMITTED snapshot, no element arrived
\* and send_task returned None.
C13_Witness ==
    /\ StreamingCard
    /\ rpc = "returned"
    /\ task_callback
    /\ received = <<>>
    /\ Len(callbacks) = 1
    /\ rret = Returned(None)

\* The metadata a merge gives, by value: the target's when the source has
\* none, else the source's entries over the target's.
MergedValue(t, s) ==
    IF s = None \/ KeysOf(s[1]) = {} THEN t
    ELSE IF t = None THEN s
    ELSE Some([x \in MetaKeys |-> IF s[1][x] # NoKey THEN s[1][x] ELSE t[1][x]])

\* C14: on a card without streaming send_task has made exactly one remote
\* request and no SUBMITTED callback; once it returned, the single response
\* has the request's metadata merged into the payload and into its status
\* message, the message chained once, the callback (if supplied) was called
\* exactly once, with that payload, and the value returned is the payload,
\* never what the callback returned.
C14_UnaryOnce ==
    (UnaryCard /\ Called) =>
        /\ sent = <<"send_task">>
        /\ rpc = "await" => (callbacks = <<>> /\ received = <<>>)
        /\ rpc = "returned" =>
            LET el == received[1]
                payload == IF el.kind = "none" THEN None
                           ELSE Some([by |-> "remote", kind |-> el.kind, final |-> el.final,
                                      metadata |-> MergedValue(el.metadata, original.metadata),
                                      message |->
                                          IF el.message = None THEN None
                                          ELSE Some([metadata |-> Some(chains[1].after)])])
            IN  /\ Len(received) = 1
                /\ rret = Returned(payload)
                /\ Len(chains) = (IF HasStatusMessage(el) THEN 1 ELSE 0)
                /\ HasStatusMessage(el) =>
                       /\ chains[1].before =
                              MergedValue(el.message[1].metadata, original.message.metadata)
                       /\ chains[1].after["message_id"] = uuid4(uuids)
                /\ IF task_callback
                   THEN /\ Len(callbacks) = 1
                        /\ callbacks[1].by = "remote"
                        /\ el.kind # "none" => callbacks[1] = payload[1]
                   ELSE callbacks = <<>>

\* C14 witness: a unary call with a callback returned a Task whose status
\* message was merged and chained.
C14_Witness ==
    /\ UnaryCard
    /\ rpc = "returned"
    /\ task_callback
    /\ Len(callbacks) = 1
    /\ Len(chains) = 1
    /\ original.message.metadata # None
    /\ rret.value # None

\* The value a metadata attribute holds under a key, NoKey when it has none.
Held(md, key) == IF md = None THEN NoKey ELSE md[1][key]

HasMapping(md) == md # None /\ KeysOf(md[1]) # {}

\* An object without a metadata attribute, and one whose metadata is None.
WithoutMetadata == {[attrs |-> {}, metadata |-> None], [attrs |-> MessageAttrs, metadata |-> None]}

\* C16: every merge_metadata(target, source) call left the source as it was
\* and, when the source had no metadata (no attribute, None or empty), left
\* the target unchanged, so that applying it again changes nothing; when
\* both had mappings the target has every key of both, with the source's
\* value on every key the source has; when only the source had a mapping the
\* target holds a copy, another dict object than the source's, and the
\* chaining that later writes the target's dict leaves the source's as it was.
C16_MergeAlgebra ==
    /\ \A i \in 1..Len(merged) :
        LET e == merged[i]
            source_has == e.attrs /\ HasMapping(e.source)
        IN  /\ e.source_after = e.source
            /\ ~source_has => e.after = e.target
            /\ (source_has /\ HasMapping(e.target)) =>
                   /\ KeysOf(e.after[1]) = KeysOf(e.target[1]) \cup KeysOf(e.source[1])
                   /\ \A x \in KeysOf(e.source[1]) : e.after[1][x] = e.source[1][x]
                   /\ \A x \in KeysOf(e.target[1]) \ KeysOf(e.source[1]) :
                          e.after[1][x] = e.target[1][x]
            /\ (source_has /\ ~HasMapping(e.target)) =>
                   /\ e.after = e.source
                   /\ ~e.aliased
    /\ \A s \in WithoutMetadata :
        LET once == merge_metadata(heap, request, s)
            twice == merge_metadata(once.h, once.target, s)
        IN  /\ once = [h |-> heap, target |-> request]
            /\ twice = once
    /\ chains # <<>> => Value(heap, request.message.metadata) = original.message.metadata

\* C16 witness: one call merged a source over a target on a key both hold,
\* and gave a target without metadata a copy that the chaining then wrote.
C16_Witness ==
    /\ \E i \in 1..Len(merged) :
        /\ HasMapping(merged[i].target)
        /\ HasMapping(merged[i].source)
        /\ merged[i].target[1]["k"] = "resp"
        /\ merged[i].source[1]["k"] = "req"
        /\ merged[i].after[1]["k"] = "req"
        /\ merged[i].after[1]["j"] = "resp"
    /\ \E i \in 1..Len(merged) :
        /\ merged[i].target = None
        /\ HasMapping(merged[i].source)
        /\ merged[i].after = merged[i].source
    /\ chains # <<>>
    /\ HasMapping(original.message.metadata)

\* C20: from the call of send_task on, whatever responses were merged and
\* chained, streamed or not, the request is as it was given: its identifiers,
\* the dict objects its metadata and its message's metadata refer to, and the
\* keys and values of both.
C20_RequestUnchanged ==
    Called =>
        /\ request.id = original.id
        /\ request.sessionId = original.sessionId
        /\ (request.metadata = None) = (original.metadata = None)
        /\ (request.message.metadata = None) = (original.message.metadata = None)
        /\ Value(heap, request.metadata) = original.metadata
        /\ Value(heap, request.message.metadata) = original.message.metadata
        /\ \A i \in 1..Len(merged) : merged[i].source_after = merged[i].source

\* C20 witness: a streamed call whose request and request message both have
\* metadata has merged and chained two status messages that arrived without
\* metadata of their own.
C20_Witness ==
    /\ StreamingCard
    /\ HasMapping(original.metadata)
    /\ HasMapping(original.message.metadata)
    /\ Len(chains) = 2
    /\ \A i \in 1..2 : received[chains[i].element].message # None
    /\ \E i \in 1..2 : received[chains[i].element].message = RespMessage(None)
====
